---- MODULE Spec2Model ----
(***************************************************************************)
(* map_manager/documents.py: the Map document, its construction from a     *)
(* wire message pair (Map.from_msg), its pre-save hooks, and its           *)
(* projection back to wire messages.                                       *)
(*                                                                         *)
(* Floats are carried as integers.  Quaternion components are counted in   *)
(* halves (One stands for 1.0), so that the sample quaternions have        *)
(* rational unit forms.  Strings are TLA+ strings.                         *)
(***************************************************************************)
EXTENDS Integers, Sequences, FiniteSets, TLC

VARIABLES
    now,          \* last value returned by datetime.utcnow()
    in_map_msg,   \* map_msg argument of the last from_msg call
    in_grid_msg,  \* occupancy_grid_msg argument of the last from_msg call
    result,       \* outcome of the last from_msg call: "none", "ok" or the error raised
    map_obj,      \* the Map returned by the last from_msg call, or NoMap
    gridfs,       \* the image / thumbnail GridFS proxies of the last construction
    saves,        \* number of save() calls on map_obj
    out           \* the last projection computed from map_obj

vars == <<now, in_map_msg, in_grid_msg, result, map_obj, gridfs, saves, out>>

(***************************** bounds **************************************)
MaxDim == 2
MaxItems == 2
MaxTime == 2
MaxSaves == 2
MaxSide == 1000

(************************ program constants ********************************)
\* im.thumbnail(size=(400, 400))
ThumbSize == 400
\* the float 1.0 (Quaternion.w default) in the model's half units
One == 2

(***************************** values **************************************)
NoMap == [none |-> "Map"]
NoFile == [none |-> "File"]
NoMsg == [type |-> "none"]
NoOut == [op |-> "none"]
Unopened == [state |-> "unopened", file |-> NoFile]
NoGridFS == [image |-> Unopened, thumbnail |-> Unopened]

Min(a, b) == IF a < b THEN a ELSE b
Max(a, b) == IF a > b THEN a ELSE b

P(x, y, z) == [x |-> x, y |-> y, z |-> z]
Q(w, x, y, z) == [w |-> w, x |-> x, y |-> y, z |-> z]

SumSq(q) == q.w * q.w + q.x * q.x + q.y * q.y + q.z * q.z
Sqrt(n) == CHOOSE r \in 0..n : r * r <= n /\ (r + 1) * (r + 1) > n

\* math6d.Quaternion(w, x, y, z): the unit quaternion of the same direction
math6d_Quaternion(w, x, y, z) ==
    LET n == Sqrt(SumSq(Q(w, x, y, z)))
    IN  Q((w * One) \div n, (x * One) \div n, (y * One) \div n, (z * One) \div n)

IsUnit(q) == SumSq(q) = One * One

\* str(v) of a text value (message strings are ASCII text here)
PyStr(v) == v

\* numpy int8 view of an unsigned byte
\* variant: the byte copied without wrapping
Int8NoWrap(p) == p
Int8(p) == IF p >= 128 THEN p - 256 ELSE p

(************************** wire messages **********************************)
\* sample quaternions: identity, w = 2.0, (1,1,1,1), z = -3.0 and (.5,-.5,.5,.5)
Quats == {Q(One, 0, 0, 0), Q(2 * One, 0, 0, 0), Q(One, One, One, One),
          Q(0, 0, -3 * One, 0), Q(1, -1, 1, 1)}

PoseMsg(p, q) == [position |-> p, orientation |-> q]

MarkerPool == <<
    [name |-> "dock", marker_type |-> 1,
     pose |-> PoseMsg(P(1, -2, 3), Q(0, -2 * One, 0, 0))],
    [name |-> "home", marker_type |-> 0,
     pose |-> PoseMsg(P(0, 0, 0), Q(One, One, One, One))],
    [name |-> "lift", marker_type |-> 7,
     pose |-> PoseMsg(P(4, 4, 0), Q(0, 0, 0, One))] >>

ZonePool == <<
    [name |-> "keepout", zone_type |-> 2,
     polygon |-> [points |-> <<P(0, 0, 0), P(1, 0, 0), P(1, 1, 5)>>]],
    [name |-> "slow", zone_type |-> 1, polygon |-> [points |-> <<>>]],
    [name |-> "dockzone", zone_type |-> 3,
     polygon |-> [points |-> <<P(2, 2, 0), P(-3, 2, 0)>>]] >>

NodePool == <<
    [id |-> "n1", x |-> 1, y |-> 2],
    [id |-> "n2", x |-> -3, y |-> 0],
    [id |-> "n3", x |-> 0, y |-> 9] >>

\* "loop" references node ids that need not exist in the same map
PathPool == <<
    [name |-> "loop", nodes |-> <<"n1", "n2", "n9">>],
    [name |-> "empty", nodes |-> <<>>],
    [name |-> "back", nodes |-> <<"n2", "n1">>] >>

\* n consecutive pool entries starting after entry k
Take(pool, n, k) == [i \in 1..n |-> pool[((i + k) % Len(pool)) + 1]]

MapMsgOf(w, h, q, n, k) ==
    [type |-> "MapMsg",
     info |-> [name |-> "floor1", description |-> "first floor",
               meta_data |-> [width |-> w, height |-> h, resolution |-> 5,
                              origin |-> PoseMsg(P(-1, 2, 0), q)]],
     markers |-> Take(MarkerPool, n, k),
     zones |-> Take(ZonePool, n, k + 1),
     nodes |-> Take(NodePool, n, k),
     paths |-> Take(PathPool, n, k + 2),
     default_zone |-> k]

MapMsgs ==
    {MapMsgOf(w, h, q, n, k) :
        w \in 0..MaxDim, h \in 0..MaxDim, q \in Quats, n \in 0..MaxItems, k \in {0, 1}}
        \cup {[type |-> "OccupancyGrid"]}

BytePool == <<0, 127, 128, 255, 1, 200>>
Bytes(n, p) == [i \in 1..n |-> BytePool[((i + p) % Len(BytePool)) + 1]]

Bands(mode) == IF mode = "RGB" THEN 3 ELSE 1

\* numpy reshape(rows, cols) of a flat buffer, and ravel() of the rows
reshape(data, rows, cols) ==
    [r \in 1..rows |-> [c \in 1..cols |-> data[(r - 1) * cols + c]]]

RECURSIVE ravel(_)
ravel(rows) == IF rows = <<>> THEN <<>> ELSE Head(rows) \o ravel(Tail(rows))

\* an in-memory PIL image, pix its rows of samples (bands interleaved); loadable = FALSE when its pixel data cannot be
\* produced at save time (a lazily opened file whose body does not decode, or
\* an empty raster the encoder rejects)
Im(mode, w, h, pix, loadable) ==
    [mode |-> mode, width |-> w, height |-> h, pix |-> pix, loadable |-> loadable]

RawMsgs ==
    {[type |-> "CompressedImage", format |-> "raw", data |-> Bytes(n, p)] :
        n \in 0..(MaxDim * MaxDim + 1), p \in {0, 3}}

\* a compressed payload is given by the image its container holds:
\* identified = FALSE when Image.open cannot identify the buffer
PngMsgs ==
    {[type |-> "CompressedImage", format |-> "png", identified |-> TRUE,
      image |-> Im(mode, w, h,
                   reshape(Bytes(w * h * Bands(mode), 1), h, w * Bands(mode)), l)] :
        mode \in {"L", "RGB", "P"}, w \in 1..MaxDim, h \in 1..MaxDim, l \in BOOLEAN}
        \cup {[type |-> "CompressedImage", format |-> "png", identified |-> FALSE]}

GridMsgs == RawMsgs \cup PngMsgs \cup {[type |-> "MapMsg"]}

(***************************** documents ***********************************)
\* Quaternion.get_msg: the message carries the components of math6d's quaternion
Quaternion_get_msg(self) ==
    LET qt == math6d_Quaternion(self.w, self.x, self.y, self.z)
    IN  Q(qt.w, qt.x, qt.y, qt.z)

\* Quaternion.pre_save(document): the normalising hook
Quaternion_pre_save(document) ==
    LET qt == math6d_Quaternion(document.w, document.x, document.y, document.z)
    IN  [document EXCEPT !.w = qt.w, !.x = qt.x, !.y = qt.y, !.z = qt.z]

Point_get_msg(self) == P(self.x, self.y, self.z)

Pose_get_msg(self) ==
    [position |-> Point_get_msg(self.position),
     orientation |-> Quaternion_get_msg(self.quaternion)]

\* DocumentMixin.pre_save(document) at clock reading t
\* variant: a hook that leaves modified alone
DocumentMixin_pre_save_keep(document, t) == document
DocumentMixin_pre_save(document, t) == [document EXCEPT !.modified = t]

Marker_get_msg(self) ==
    [name |-> PyStr(self.name), marker_type |-> self.marker_type,
     pose |-> Pose_get_msg(self.pose)]

Node_get_msg(self) ==
    [id |-> PyStr(self.id), x |-> self.point.x, y |-> self.point.y]

Path_get_msg(self) ==
    [name |-> PyStr(self.name), nodes |-> [i \in 1..Len(self.nodes) |-> PyStr(self.nodes[i])]]

Zone_get_msg(self) ==
    [name |-> PyStr(self.name), zone_type |-> self.zone_type,
     polygon |-> [points |-> [i \in 1..Len(self.polygon) |->
                     P(self.polygon[i].x, self.polygon[i].y, self.polygon[i].z)]]]

\* the documents from_msg builds from the entries of the overlay message
Marker_of(marker) ==
    [name |-> marker.name, marker_type |-> marker.marker_type,
     pose |-> [position |-> P(marker.pose.position.x, marker.pose.position.y,
                              marker.pose.position.z),
               quaternion |-> Q(marker.pose.orientation.w, marker.pose.orientation.x,
                                marker.pose.orientation.y, marker.pose.orientation.z)]]

Zone_of(zone) ==
    [name |-> zone.name, zone_type |-> zone.zone_type,
     polygon |-> [i \in 1..Len(zone.polygon.points) |->
                     P(zone.polygon.points[i].x, zone.polygon.points[i].y,
                       zone.polygon.points[i].z)]]

Node_of(node) == [id |-> node.id, point |-> P(node.x, node.y, 0)]

Path_of(path) == [name |-> path.name, nodes |-> path.nodes]

\* lines 174-238 of from_msg: Map() with its timestamp defaults, then the copies
\* variant: markers prepended instead of appended
MapFieldsReversed(map_msg, t_modified, t_created) ==
    LET md == map_msg.info.meta_data
        n == Len(map_msg.markers)
    IN  [name |-> map_msg.info.name,
         description |-> map_msg.info.description,
         modified |-> t_modified,
         created |-> t_created,
         width |-> md.width,
         height |-> md.height,
         resolution |-> md.resolution,
         origin |-> [position |-> P(md.origin.position.x, md.origin.position.y,
                                    md.origin.position.z),
                     quaternion |-> Q(md.origin.orientation.w, md.origin.orientation.x,
                                      md.origin.orientation.y, md.origin.orientation.z)],
         default_zone |-> map_msg.default_zone,
         markers |-> [i \in 1..n |-> Marker_of(map_msg.markers[n + 1 - i])],
         zones |-> [i \in 1..Len(map_msg.zones) |-> Zone_of(map_msg.zones[i])],
         nodes |-> [i \in 1..Len(map_msg.nodes) |-> Node_of(map_msg.nodes[i])],
         paths |-> [i \in 1..Len(map_msg.paths) |-> Path_of(map_msg.paths[i])]]

MapFields(map_msg, t_modified, t_created) ==
    LET md == map_msg.info.meta_data
    IN  [name |-> map_msg.info.name,
         description |-> map_msg.info.description,
         modified |-> t_modified,
         created |-> t_created,
         width |-> md.width,
         height |-> md.height,
         resolution |-> md.resolution,
         origin |-> [position |-> P(md.origin.position.x, md.origin.position.y,
                                    md.origin.position.z),
                     quaternion |-> Q(md.origin.orientation.w, md.origin.orientation.x,
                                      md.origin.orientation.y, md.origin.orientation.z)],
         default_zone |-> map_msg.default_zone,
         markers |-> [i \in 1..Len(map_msg.markers) |-> Marker_of(map_msg.markers[i])],
         zones |-> [i \in 1..Len(map_msg.zones) |-> Zone_of(map_msg.zones[i])],
         nodes |-> [i \in 1..Len(map_msg.nodes) |-> Node_of(map_msg.nodes[i])],
         paths |-> [i \in 1..Len(map_msg.paths) |-> Path_of(map_msg.paths[i])]]

(****************************** raster *************************************)
\* im.save(fp, format='PPM'): the modes the PPM writer accepts
PpmModes == {"L", "RGB"}

\* the PPM file written for im
PpmSave(im) ==
    [magic |-> IF im.mode = "L" THEN "P5" ELSE "P6",
     width |-> im.width, height |-> im.height, maxval |-> 255,
     raster |-> ravel(im.pix)]

\* Image.open of a stored PPM file
PpmOpen(file) ==
    LET mode == IF file.magic = "P5" THEN "L" ELSE "RGB"
    IN  Im(mode, file.width, file.height,
           reshape(file.raster, file.height, file.width * Bands(mode)), TRUE)

\* Image.thumbnail(size): the size the image is reduced to, never enlarged
\* variant: each side clamped on its own
thumbnail_size_stretch(x0, y0, size) == <<Min(x0, size[1]), Min(y0, size[2])>>
thumbnail_size(x0, y0, size) ==
    LET y1 == IF x0 > size[1] THEN Max((y0 * size[1]) \div x0, 1) ELSE y0
        x1 == IF x0 > size[1] THEN size[1] ELSE x0
        x2 == IF y1 > size[2] THEN Max((x1 * size[2]) \div y1, 1) ELSE x1
        y2 == IF y1 > size[2] THEN size[2] ELSE y1
    IN  <<x2, y2>>

\* the thumbnail artifact: its header (the resampled raster is not modelled)
ThumbnailFile(im) ==
    LET sz == thumbnail_size(im.width, im.height, <<ThumbSize, ThumbSize>>)
    IN  [magic |-> IF im.mode = "L" THEN "P5" ELSE "P6",
         width |-> sz[1], height |-> sz[2], maxval |-> 255]

(***************************** from_msg ************************************)
Raised(e, line) == [raised |-> e, at |-> line]
NotCalled == Raised("none", 0)
Ok == Raised("none", 258)
Failed(r) == r.raised # "none"

\* what an empty raster (width * height = 0) does, by Pillow build: rejected
\* by Image.fromarray, rejected by the encoder at save, or accepted
EmptyRasterOutcomes == {"accepted", "rejected by fromarray", "rejected by encoder"}

\* lines 240-248: the image decoded from the payload, or the error raised.
\* noassert: the interpreter runs with assert statements stripped
\* fromarray(fromstring(data).reshape(height, width))
RawImage(data, w, h, loadable) == Im("L", w, h, reshape(data, h, w), loadable)

\* variant: the raw length is not checked
DecodeUnchecked(map_msg, grid, noassert, empty) ==
    IF grid.format = "raw"
    THEN [error |-> Ok,
          im |-> Im("L", map_msg.info.meta_data.width, map_msg.info.meta_data.height,
                    <<grid.data>>, TRUE)]
    ELSE IF ~grid.identified
         THEN [error |-> Raised("IOError", 246), im |-> NoFile]
         ELSE IF <<grid.image.width, grid.image.height>> #
                 <<map_msg.info.meta_data.width, map_msg.info.meta_data.height>>
         THEN [error |-> Raised("Exception", 248), im |-> NoFile]
         ELSE [error |-> Ok, im |-> grid.image]

\* variant: the decoded size is compared with (height, width)
DecodeTransposed(map_msg, grid, noassert, empty) ==
    IF grid.format = "raw"
    THEN IF Len(grid.data) # map_msg.info.meta_data.width * map_msg.info.meta_data.height
         THEN [error |-> Raised("AssertionError", 241), im |-> NoFile]
         ELSE [error |-> Ok,
               im |-> RawImage(grid.data, map_msg.info.meta_data.width,
                               map_msg.info.meta_data.height, TRUE)]
    ELSE IF ~grid.identified
         THEN [error |-> Raised("IOError", 246), im |-> NoFile]
         ELSE IF <<grid.image.width, grid.image.height>> #
                 <<map_msg.info.meta_data.height, map_msg.info.meta_data.width>>
         THEN [error |-> Raised("Exception", 248), im |-> NoFile]
         ELSE [error |-> Ok, im |-> grid.image]

Decode(map_msg, grid, noassert, empty) ==
    LET w == map_msg.info.meta_data.width
        h == map_msg.info.meta_data.height
    IN  IF grid.format = "raw"
        THEN IF Len(grid.data) # w * h
             THEN [error |-> IF noassert THEN Raised("ValueError", 242)
                                         ELSE Raised("AssertionError", 241),
                   im |-> NoFile]
             ELSE IF w * h = 0 /\ empty = "rejected by fromarray"
             THEN [error |-> Raised("ValueError", 242), im |-> NoFile]
             ELSE [error |-> Ok,
                   im |-> RawImage(grid.data, w, h, ~(w * h = 0 /\ empty = "rejected by encoder"))]
        ELSE IF ~grid.identified
             THEN [error |-> Raised("IOError", 246), im |-> NoFile]
             ELSE IF <<grid.image.width, grid.image.height>> # <<w, h>>
             THEN [error |-> Raised("Exception", 248), im |-> NoFile]
             ELSE [error |-> Ok, im |-> grid.image]

\* lines 249-256: the two artifacts. fault: the GridFS write that fails, if any
Store(im, fault) ==
    IF ~im.loadable \/ im.mode \notin PpmModes \/ fault = "image"
    THEN [error |-> Raised(IF ~im.loadable /\ im.width * im.height = 0
                           THEN "SystemError" ELSE "IOError", 250),
          gridfs |-> [image |-> [state |-> "open", file |-> NoFile],
                      thumbnail |-> Unopened]]
    ELSE IF fault = "thumbnail"
    THEN [error |-> Raised("IOError", 255),
          gridfs |-> [image |-> [state |-> "closed", file |-> PpmSave(im)],
                      thumbnail |-> [state |-> "open", file |-> NoFile]]]
    ELSE [error |-> Ok,
          gridfs |-> [image |-> [state |-> "closed", file |-> PpmSave(im)],
                      thumbnail |-> [state |-> "closed", file |-> ThumbnailFile(im)]]]

\* Map.from_msg(map_msg, occupancy_grid_msg): what it returns or raises, and
\* what it leaves in GridFS
from_msg(map_msg, grid, noassert, empty, fault, t_modified, t_created) ==
    IF map_msg.type # "MapMsg"
    THEN [result |-> IF noassert THEN Raised("AttributeError", 175)
                                 ELSE Raised("AssertionError", 172),
          map_obj |-> NoMap, gridfs |-> NoGridFS]
    ELSE IF grid.type # "CompressedImage"
    THEN [result |-> IF noassert THEN Raised("AttributeError", 240)
                                 ELSE Raised("AssertionError", 173),
          map_obj |-> NoMap, gridfs |-> NoGridFS]
    ELSE LET d == Decode(map_msg, grid, noassert, empty)
         IN  IF Failed(d.error)
             THEN [result |-> d.error, map_obj |-> NoMap, gridfs |-> NoGridFS]
             ELSE LET st == Store(d.im, fault)
                  IN  [result |-> st.error,
                       map_obj |-> IF Failed(st.error) THEN NoMap
                                   ELSE MapFields(map_msg, t_modified, t_created),
                       gridfs |-> st.gridfs]

(******************************* save **************************************)
\* mongoengine.signals.pre_save.connect(receiver, sender=...), in module order
Receivers == <<
    [receiver |-> "Quaternion.pre_save", sender |-> "Quaternion"],
    [receiver |-> "Map.pre_save", sender |-> "Map"] >>

Call(receiver, document, t) ==
    IF receiver = "Quaternion.pre_save"
    THEN Quaternion_pre_save(document)
    ELSE DocumentMixin_pre_save(document, t)

\* pre_save.send(sender, document=document): the receivers connected for
\* this sender run, from receiver i on
RECURSIVE pre_save_send(_, _, _, _)
pre_save_send(sender, document, t, i) ==
    IF i > Len(Receivers)
    THEN document
    ELSE pre_save_send(sender,
                       IF Receivers[i].sender = sender
                       THEN Call(Receivers[i].receiver, document, t)
                       ELSE document,
                       t, i + 1)

\* Document.save() of a Map: the signal is sent once, with the class of the
\* saved document as sender; embedded documents send none
save(document, t) == pre_save_send("Map", document, t, 1)

(**************************** projections **********************************)
\* calendar.timegm(t.timetuple()): whole seconds of a clock counted in half seconds
timegm(t) == t \div 2

get_map_meta_data_msg(self) ==
    [map_load_time |-> 0, resolution |-> self.resolution,
     width |-> self.width, height |-> self.height,
     origin |-> Pose_get_msg(self.origin)]

get_map_info_msg(self) ==
    [name |-> PyStr(self.name), description |-> PyStr(self.description),
     created |-> timegm(self.created), modified |-> timegm(self.modified),
     meta_data |-> get_map_meta_data_msg(self)]

get_map_msg(self) ==
    [info |-> get_map_info_msg(self),
     markers |-> [i \in 1..Len(self.markers) |-> Marker_get_msg(self.markers[i])],
     zones |-> [i \in 1..Len(self.zones) |-> Zone_get_msg(self.zones[i])],
     nodes |-> [i \in 1..Len(self.nodes) |-> Node_get_msg(self.nodes[i])],
     paths |-> [i \in 1..Len(self.paths) |-> Path_get_msg(self.paths[i])],
     default_zone |-> self.default_zone]

\* numpy.array(Image.open(fp=image), dtype=numpy.int8).ravel(): every stored
\* sample, rows first, bands interleaved
get_occupancy_grid_msg(self, image) ==
    LET flat == ravel(PpmOpen(image.file).pix)
    IN  [header |-> [seq |-> 0, frame_id |-> "map"],
         info |-> get_map_meta_data_msg(self),
         data |-> [i \in 1..Len(flat) |-> Int8(flat[i])]]

(****************************** actions ************************************)
\* datetime.utcnow() read after reading `t`: the same instant or a later one
Clock(t) == t..Min(t + 1, MaxTime)

Init ==
    /\ now = 0
    /\ in_map_msg = NoMsg
    /\ in_grid_msg = NoMsg
    /\ result = NotCalled
    /\ map_obj = NoMap
    /\ gridfs = NoGridFS
    /\ saves = 0
    /\ out = NoOut

\* one construction is followed: from_msg builds a fresh Map on every call, and
\* the variables describe the Map of a single call
FromMsg ==
    /\ result = NotCalled
    /\ \E fault \in {"none", "image", "thumbnail"}, empty \in EmptyRasterOutcomes,
          noassert \in BOOLEAN, grid \in GridMsgs, map_msg \in MapMsgs :
       \E t_modified \in Clock(now) :
       \E t_created \in Clock(t_modified) :
        LET r == from_msg(map_msg, grid, noassert, empty, fault, t_modified, t_created)
        IN  /\ in_map_msg' = map_msg
            /\ in_grid_msg' = grid
            /\ result' = r.result
            /\ map_obj' = r.map_obj
            /\ gridfs' = r.gridfs
            /\ now' = IF r.result.at \in {172, 173} THEN now ELSE t_created
            /\ saves' = 0
            /\ out' = NoOut

Save ==
    /\ map_obj # NoMap
    /\ saves < MaxSaves
    /\ \E t \in Clock(now) :
        /\ map_obj' = save(map_obj, t)
        /\ now' = t
    /\ saves' = saves + 1
    /\ UNCHANGED <<in_map_msg, in_grid_msg, result, gridfs, out>>

GetMapMsg ==
    /\ map_obj # NoMap
    /\ out' = [op |-> "get_map_msg", msg |-> get_map_msg(map_obj)]
    /\ UNCHANGED <<now, in_map_msg, in_grid_msg, result, map_obj, gridfs, saves>>

GetOccupancyGridMsg ==
    /\ map_obj # NoMap
    /\ out' = [op |-> "get_occupancy_grid_msg",
               msg |-> get_occupancy_grid_msg(map_obj, gridfs.image)]
    /\ UNCHANGED <<now, in_map_msg, in_grid_msg, result, map_obj, gridfs, saves>>

Next == FromMsg \/ Save \/ GetMapMsg \/ GetOccupancyGridMsg

Spec == Init /\ [][Next]_vars

\* im.thumbnail(size=(400, 400)) on canonical images of every size up to MaxSide
Thumbnail ==
    /\ out = NoOut
    /\ \E W \in 1..MaxSide, H \in 1..MaxSide :
        /\ out' = [op |-> "thumbnail", image |-> <<W, H>>,
                   size |-> thumbnail_size(W, H, <<ThumbSize, ThumbSize>>)]
        /\ UNCHANGED <<now, in_map_msg, in_grid_msg, result, map_obj, gridfs, saves>>

SpecThumb == Init /\ [][Thumbnail]_vars

(****************************** claims *************************************)
Called == result # NotCalled
TypedCall == Called /\ in_map_msg.type = "MapMsg" /\ in_grid_msg.type = "CompressedImage"
DeclaredWidth == in_map_msg.info.meta_data.width
DeclaredHeight == in_map_msg.info.meta_data.height
RawCall == TypedCall /\ in_grid_msg.format = "raw"
CompressedCall == TypedCall /\ in_grid_msg.format # "raw"
Returned == result = Ok

RawSizeMismatchCall ==
    RawCall /\ Len(in_grid_msg.data) # DeclaredWidth * DeclaredHeight

\* C1: a raw payload whose length differs from width * height makes from_msg
\* fail with the size-mismatch error of lines 241-242, and no Map is returned
C1_RawSizeMismatchFails ==
    RawSizeMismatchCall =>
        /\ result \in {Raised("AssertionError", 241), Raised("ValueError", 242)}
        /\ map_obj = NoMap

C1_Witness ==
    /\ RawSizeMismatchCall
    /\ DeclaredWidth * DeclaredHeight > 0
    /\ Len(in_grid_msg.data) < DeclaredWidth * DeclaredHeight
    /\ result = Raised("AssertionError", 241)

DimensionMismatchCall ==
    /\ CompressedCall
    /\ in_grid_msg.identified
    /\ <<in_grid_msg.image.width, in_grid_msg.image.height>> #
       <<DeclaredWidth, DeclaredHeight>>

\* C2: a compressed payload whose decoded size differs from the declared
\* (width, height) makes from_msg raise the dimension-mismatch error of
\* line 248, and no Map is returned
C2_DimensionMismatchFails ==
    DimensionMismatchCall =>
        /\ result = Raised("Exception", 248)
        /\ map_obj = NoMap

C2_Witness ==
    /\ DimensionMismatchCall
    /\ in_grid_msg.image.width = DeclaredHeight
    /\ in_grid_msg.image.height = DeclaredWidth
    /\ result = Raised("Exception", 248)

\* C3: whenever from_msg fails, no artifact stream has been opened or written
\* and no Map is observable
C3_FailureBeforeAnyArtifact ==
    (Called /\ Failed(result)) => (gridfs = NoGridFS /\ map_obj = NoMap)

AllQuaternions(m) ==
    {m.origin.quaternion} \cup {m.markers[i].pose.quaternion : i \in 1..Len(m.markers)}

\* C4: after any save of a Map, its origin quaternion and every marker's
\* quaternion are unit-norm
C4_UnitNormAfterSave ==
    (map_obj # NoMap /\ saves > 0) => \A q \in AllQuaternions(map_obj) : IsUnit(q)

\* o is the unit quaternion with the direction of q
Renormalised(o, q) ==
    /\ SumSq(o) = One * One
    /\ o.w * q.x = o.x * q.w /\ o.w * q.y = o.y * q.w /\ o.w * q.z = o.z * q.w
    /\ o.x * q.y = o.y * q.x /\ o.x * q.z = o.z * q.x /\ o.y * q.z = o.z * q.y
    /\ o.w * q.w + o.x * q.x + o.y * q.y + o.z * q.z > 0

SamePose(o, p) ==
    o.position = p.position /\ Renormalised(o.orientation, p.orientation)

SameMetaData(o, m) ==
    /\ o.width = m.width /\ o.height = m.height /\ o.resolution = m.resolution
    /\ SamePose(o.origin, m.origin)

\* C5: the projections of a Map built from a raw payload reproduce the
\* overlay message: scalars and collections exactly and in order, each
\* quaternion as the renormalisation of the message's
C5_RoundTrip ==
    (RawCall /\ Returned) =>
        /\ out.op = "get_map_msg" =>
            /\ out.msg.info.name = in_map_msg.info.name
            /\ out.msg.info.description = in_map_msg.info.description
            /\ SameMetaData(out.msg.info.meta_data, in_map_msg.info.meta_data)
            /\ out.msg.default_zone = in_map_msg.default_zone
            /\ Len(out.msg.markers) = Len(in_map_msg.markers)
            /\ \A i \in 1..Len(in_map_msg.markers) :
                /\ out.msg.markers[i].name = in_map_msg.markers[i].name
                /\ out.msg.markers[i].marker_type = in_map_msg.markers[i].marker_type
                /\ SamePose(out.msg.markers[i].pose, in_map_msg.markers[i].pose)
            /\ out.msg.zones = in_map_msg.zones
            /\ out.msg.nodes = in_map_msg.nodes
            /\ out.msg.paths = in_map_msg.paths
        /\ out.op = "get_occupancy_grid_msg" =>
            SameMetaData(out.msg.info, in_map_msg.info.meta_data)

C5_Witness ==
    /\ RawCall /\ Returned /\ saves > 0
    /\ out.op = "get_map_msg"
    /\ Len(in_map_msg.markers) = MaxItems
    /\ Len(in_map_msg.zones[1].polygon.points) > 1
    /\ Len(in_map_msg.paths[1].nodes) > 1
    /\ ~IsUnit(in_map_msg.info.meta_data.origin.orientation)
    /\ ~IsUnit(in_map_msg.markers[1].pose.orientation)

\* C6: the canonical image of every returned Map is single-channel, of the
\* declared width and height, and the occupancy grid data has width * height
\* cells
C6_CanonicalSingleChannel ==
    Returned =>
        /\ gridfs.image.file.magic = "P5"
        /\ gridfs.image.file.width = DeclaredWidth
        /\ gridfs.image.file.height = DeclaredHeight
        /\ out.op = "get_occupancy_grid_msg" =>
              Len(out.msg.data) = DeclaredWidth * DeclaredHeight

\* C7: every save sets modified to the time of that save, never earlier than
\* the previous modified, and leaves created as construction set it
C7_ModifiedOnSave ==
    [][saves' = saves + 1 =>
          /\ map_obj'.modified = now'
          /\ map_obj'.modified >= map_obj.modified
          /\ map_obj'.created = map_obj.created]_vars

C7_Witness ==
    /\ map_obj # NoMap
    /\ saves = 2
    /\ map_obj.modified > map_obj.created

Abs(n) == IF n < 0 THEN -n ELSE n

\* C8: the thumbnail of a W x H image fits in 400 x 400, keeps the aspect
\* ratio to within one pixel of the scaled side, and equals the image when
\* W <= 400 and H <= 400
C8_ThumbnailBound ==
    out.op = "thumbnail" =>
        LET W == out.image[1]
            H == out.image[2]
            w == out.size[1]
            h == out.size[2]
        IN  /\ w >= 1 /\ h >= 1
            /\ Max(w, h) <= ThumbSize
            /\ Abs(w * H - h * W) < Max(W, H)
            /\ (W <= ThumbSize /\ H <= ThumbSize) => (w = W /\ h = H)

C8_Witness ==
    /\ out.op = "thumbnail"
    /\ out.image[1] > ThumbSize
    /\ out.image[2] > out.image[1]
    /\ out.size[2] = ThumbSize
    /\ out.size[1] < ThumbSize

\* C9: no artifact stream opened by from_msg is left open when it returns or raises
C9_StreamsClosed ==
    Called => (gridfs.image.state # "open" /\ gridfs.thumbnail.state # "open")

\* v is the signed 8-bit value with the bit pattern of the byte p
Reinterpreted(v, p) == v \in -128..127 /\ (v - p) % 256 = 0

\* C10: the occupancy grid data are the stored samples in row-major order,
\* each byte reinterpreted as signed; from a raw payload, cell i is the
\* reinterpretation of input byte i
C10_SignedReinterpretation ==
    (Returned /\ out.op = "get_occupancy_grid_msg") =>
        /\ Len(out.msg.data) = Len(gridfs.image.file.raster)
        /\ \A i \in 1..Len(out.msg.data) :
              Reinterpreted(out.msg.data[i], gridfs.image.file.raster[i])
        /\ RawCall =>
              /\ Len(out.msg.data) = Len(in_grid_msg.data)
              /\ \A i \in 1..Len(in_grid_msg.data) :
                    Reinterpreted(out.msg.data[i], in_grid_msg.data[i])

C10_Witness ==
    /\ RawCall /\ Returned
    /\ out.op = "get_occupancy_grid_msg"
    /\ DeclaredWidth > 1 /\ DeclaredHeight > 1
    /\ \E i, j \in 1..Len(out.msg.data) :
          /\ in_grid_msg.data[i] >= 128 /\ out.msg.data[i] < 0
          /\ in_grid_msg.data[j] < 128 /\ in_grid_msg.data[j] > 0

====
